---------------------------- MODULE Spec2Model ----------------------------
(***************************************************************************)
(* A model of the trackable macros (src/src/macros.rs): track!,            *)
(* track_assert!, track_assert_eq!, track_assert_ne!, track_assert_some!,  *)
(* track_panic!, track_try_unwrap! and                                     *)
(* derive_traits_for_trackable_error_newtype!, together with the parts of  *)
(* the crate the macros call (History, Trackable, TrackableError,          *)
(* ErrorKindExt), which are modelled from the specification.               *)
(*                                                                         *)
(* Values.  Option<_> is a sequence of length 0 (None) or 1 (Some).        *)
(*   History         [events : Seq(Location), enabled : BOOLEAN]           *)
(*   TrackableError  [cause : Option<String>, history : Option<History>,   *)
(*                    kind, tag |-> "Error"]                               *)
(*   newtype         [inner : TrackableError, tag |-> "Newtype"]           *)
(*   Option<T>       [tag |-> "Some", val : T]  or  [tag |-> "None"]       *)
(*   Result<T, E>    [tag |-> "Ok", val]        or  [tag |-> "Err", val:E] *)
(***************************************************************************)
EXTENDS Integers, Sequences, FiniteSets, TLC

(* The field names of the records of this module.  TLC sorts the fields of *)
(* a record in the order in which it first met their names; every record   *)
(* below lists its fields in the order of this one, so that they are       *)
(* sorted as written.                                                      *)
FieldOrder ==
    [a |-> 0, args |-> 0, arm |-> 0, b |-> 0, cause |-> 0, conds |-> 0,
     enabled |-> 0, error |-> 0, evals |-> 0, events |-> 0, expr |-> 0,
     expression |-> 0, factory |-> 0, flow |-> 0, fmt |-> 0, history |-> 0,
     inner |-> 0, kind |-> 0, left |-> 0, line |-> 0, locs |-> 0,
     macro |-> 0, message |-> 0, okValue |-> 0, op |-> 0, retType |-> 0,
     right |-> 0, site |-> 0, tag |-> 0, val |-> 0, value |-> 0]

VARIABLES
    target,      \* the trackable value the program holds
    pre,         \* target as it was before the last operation
    lastOp,      \* the last operation on target
    log,         \* the events of the track! calls made on target while it
                 \* was recording, in call order
    calls,       \* how many track! calls were made on target
    factoryCalls,\* how often an event factory (the closure of track!) ran
    locations,   \* how many Location values were built
    msgEvals,    \* how often a message / format! argument was evaluated
    pc,          \* position in the enclosing function of an assertion macro
    call,        \* the macro the enclosing function runs, with its arguments
    ret,         \* what the enclosing function returned (Option<Result>)
    condEvals,   \* how often the running macro evaluated its condition
    afterRan,    \* whether the statement after the macro ran
    panicked     \* Option<panic payload> of the running function

vars == <<target, pre, lastOp, log, calls, factoryCalls, locations, msgEvals,
          pc, call, ret, condEvals, afterRan, panicked>>

fnVars == <<pc, call, ret, condEvals, afterRan, panicked>>

---------------------------------------------------------------------------
(* Bounds *)

MaxCalls == 3
MaxDepth == 2

---------------------------------------------------------------------------
(* Option *)

None == <<>>
Some(x) == <<x>>
is_some(o) == Len(o) = 1
unwrap(o) == o[1]

---------------------------------------------------------------------------
(* format!, concat!, Debug *)

Placeholders == {"{}", "{:?}"}

Debug(n) == ToString(n)

RECURSIVE format(_, _)
format(fmt, args) ==
    IF fmt = <<>> THEN ""
    ELSE IF Head(fmt) \in Placeholders
         THEN Head(args) \o format(Tail(fmt), Tail(args))
         ELSE Head(fmt) \o format(Tail(fmt), args)

concat(a, b) == a \o b

---------------------------------------------------------------------------
(* Location and History *)

Location_new(line, message) == [line |-> line, message |-> message]

History_new(enabled) == [enabled |-> enabled, events |-> <<>>]

History_add(h, event) ==
    IF h.enabled THEN [h EXCEPT !.events = Append(@, event)] ELSE h

History_enable(h) == [h EXCEPT !.enabled = TRUE]

History_disable(h) == [h EXCEPT !.enabled = FALSE]

events(h) == h.events

---------------------------------------------------------------------------
(* TrackableError and ErrorKindExt *)

Kinds == {"Failed", "Foo"}

TrackableError_new(kind, cause) ==
    [cause |-> cause, history |-> Some(History_new(TRUE)), kind |-> kind,
     tag |-> "Error"]

error(kind) == TrackableError_new(kind, None)

cause(kind, message) == TrackableError_new(kind, Some(message))

TrackableError_enable_tracking(e) ==
    IF is_some(e.history)
    THEN [e EXCEPT !.history = Some(History_enable(unwrap(e.history)))]
    ELSE e

TrackableError_disable_tracking(e) ==
    IF is_some(e.history)
    THEN [e EXCEPT !.history = Some(History_disable(unwrap(e.history)))]
    ELSE e

---------------------------------------------------------------------------
(* derive_traits_for_trackable_error_newtype! *)

newtype_from_inner(f) == [inner |-> f, tag |-> "Newtype"]

newtype_into_inner(f) == f.inner

newtype_from_kind(f) == newtype_from_inner(error(f))

newtype_deref(n) == n.inner

(* enable_tracking that allocates a new history. *)
newtype_enable_tracking_fresh(n) ==
    newtype_from_inner([n.inner EXCEPT !.history = Some(History_new(TRUE))])

(* disable_tracking that forwards to enable_tracking. *)
newtype_disable_tracking_enables(n) ==
    newtype_from_inner(TrackableError_enable_tracking(n.inner))

newtype_enable_tracking(n) ==
    newtype_from_inner(TrackableError_enable_tracking(n.inner))

newtype_disable_tracking(n) ==
    newtype_from_inner(TrackableError_disable_tracking(n.inner))

newtype_history(n) == n.inner.history

newtype_history_mut(n, h) == [n EXCEPT !.inner.history = Some(h)]

---------------------------------------------------------------------------
(* Trackable: history, history_mut, enable_tracking, disable_tracking,     *)
(* track, for TrackableError, the newtype, Option<T> and Result<T, E>.     *)

RECURSIVE history(_)
history(v) ==
    CASE v.tag = "Error"   -> v.history
      [] v.tag = "Newtype" -> newtype_history(v)
      [] v.tag = "Some"    -> history(v.val)
      [] v.tag = "Err"     -> history(v.val)
      [] v.tag = "None"    -> None
      [] v.tag = "Ok"      -> None

(* The write through the reference history_mut() returns: v with the       *)
(* history it carries replaced by h.  Called only when history(v) is Some. *)
RECURSIVE history_mut(_, _)
history_mut(v, h) ==
    CASE v.tag = "Error"   -> [v EXCEPT !.history = Some(h)]
      [] v.tag = "Newtype" -> newtype_history_mut(v, h)
      [] v.tag = "Some"    -> [v EXCEPT !.val = history_mut(v.val, h)]
      [] v.tag = "Err"     -> [v EXCEPT !.val = history_mut(v.val, h)]
      [] v.tag = "None"    -> v
      [] v.tag = "Ok"      -> v

RECURSIVE enable_tracking(_)
enable_tracking(v) ==
    CASE v.tag = "Error"   -> TrackableError_enable_tracking(v)
      [] v.tag = "Newtype" -> newtype_enable_tracking(v)
      [] v.tag = "Some"    -> [v EXCEPT !.val = enable_tracking(v.val)]
      [] v.tag = "Err"     -> [v EXCEPT !.val = enable_tracking(v.val)]
      [] v.tag = "None"    -> v
      [] v.tag = "Ok"      -> v

RECURSIVE disable_tracking(_)
disable_tracking(v) ==
    CASE v.tag = "Error"   -> TrackableError_disable_tracking(v)
      [] v.tag = "Newtype" -> newtype_disable_tracking(v)
      [] v.tag = "Some"    -> [v EXCEPT !.val = disable_tracking(v.val)]
      [] v.tag = "Err"     -> [v EXCEPT !.val = disable_tracking(v.val)]
      [] v.tag = "None"    -> v
      [] v.tag = "Ok"      -> v

(* Whether track() invokes its event factory on v: a history slot exists   *)
(* and it is recording.                                                    *)
in_tracking(v) == is_some(history(v)) /\ unwrap(history(v)).enabled

(* v after v.track(|| event).                                              *)
Trackable_track(v, event) ==
    IF ~is_some(history(v)) THEN v
    ELSE IF ~unwrap(history(v)).enabled THEN v
    ELSE history_mut(v, History_add(unwrap(history(v)), event))

---------------------------------------------------------------------------
(* track!  Each arm gives the value the block evaluates to, and how often  *)
(* the closure ran, a Location was built and the message was evaluated.    *)

Tracked(value, factory, locs, evals) ==
    [evals |-> evals, factory |-> factory, locs |-> locs, value |-> value]

(* How often v.track(f) runs the closure f. *)
Ran(v) == IF in_tracking(v) THEN 1 ELSE 0

(* track! that hands back the value it was given, not the tracked one. *)
track_1_untracked(t, line) == Tracked(t, Ran(t), Ran(t), 0)

(* track! that builds the Location before the call of track(). *)
track_1_eager(t, line) ==
    Tracked(Trackable_track(t, Location_new(line, "")), Ran(t), 1, 0)

(* track! that calls track() twice. *)
track_1_twice(t, line) ==
    Tracked(Trackable_track(Trackable_track(t, Location_new(line, "")),
                            Location_new(line, "")),
            2 * Ran(t), 2 * Ran(t), 0)

track_1(t, line) ==
    Tracked(Trackable_track(t, Location_new(line, "")), Ran(t), Ran(t), 0)

(* track! that evaluates the message outside the closure. *)
track_2_eager(t, line, message) ==
    Tracked(Trackable_track(t, Location_new(line, message)),
            Ran(t), Ran(t), 1)

track_2(t, line, message) ==
    Tracked(Trackable_track(t, Location_new(line, message)),
            Ran(t), Ran(t), Ran(t))

track_3(t, line, fmt, args) == track_2(t, line, format(fmt, args))

---------------------------------------------------------------------------
(* Call sites of track! in the program: the three of the doc example.      *)

Sites ==
    { [args |-> <<>>, arm |-> 1, fmt |-> <<>>, line |-> 10],
      [args |-> <<>>, arm |-> 2,
       fmt |-> <<"This is a note about this location">>, line |-> 14],
      [args |-> <<"World!">>, arm |-> 3, fmt |-> <<"Hello ", "{}">>,
       line |-> 18] }

track(t, site) ==
    CASE site.arm = 1 -> track_1(t, site.line)
      [] site.arm = 2 -> track_2(t, site.line, site.fmt[1])
      [] site.arm = 3 -> track_3(t, site.line, site.fmt, site.args)

(* The event the call site's closure builds when it runs. *)
SiteEvent(site) ==
    Location_new(site.line,
                 CASE site.arm = 1 -> ""
                   [] site.arm = 2 -> site.fmt[1]
                   [] site.arm = 3 -> format(site.fmt, site.args))

---------------------------------------------------------------------------
(* track_panic!, the assertion macros and track_try_unwrap!.  Each arm     *)
(* gives how control leaves the macro ("continue" past it, "return" from   *)
(* the enclosing function, or "panic"), the value that goes with it, and   *)
(* the counts of the track! it expands to.  TLA+ strings cannot hold the   *)
(* backquote character: the apostrophe ' stands for it in the messages.    *)

Outcome(flow, value, t, conds) ==
    [conds |-> conds, evals |-> t.evals, factory |-> t.factory,
     flow |-> flow, locs |-> t.locs, value |-> value]

Untracked == [evals |-> 0, factory |-> 0, locs |-> 0]

Ok(v) == [tag |-> "Ok", val |-> v]
Err(e) == [tag |-> "Err", val |-> e]

(* An error kind passed where track_panic! expects '$error'. *)
KindArg(k) == [kind |-> k, tag |-> "Kind"]

(* TrackableError::from($error): from a kind, or from a TrackableError. *)
TrackableError_from(x) == IF x.tag = "Kind" THEN error(x.kind) ELSE x

(* From::from(e) into the error type of the enclosing function. *)
RetTypes == {"TrackableError", "Newtype"}
From_from(e, retType) ==
    IF retType = "Newtype" THEN newtype_from_inner(e) ELSE e

(* track_panic! without its track!. *)
track_panic_1_untracked(err, line, retType) ==
    Outcome("return", Err(From_from(TrackableError_from(err), retType)),
            Untracked, 0)

track_panic_1(err, line, retType) ==
    LET e == TrackableError_from(err)
        t == track_1(e, line)
    IN  Outcome("return", Err(From_from(t.value, retType)), t, 0)

track_panic_2(kind, message, line, retType) ==
    track_panic_1(cause(kind, message), line, retType)

track_panic_3(kind, fmt, args, line, retType) ==
    track_panic_2(kind, format(fmt, args), line, retType)

Continue(value, conds) == Outcome("continue", value, Untracked, conds)

WithCond(o) == [o EXCEPT !.conds = 1]

(* track_assert! that fails when the condition holds. *)
track_assert_2_inverted(cond, text, kind, line, retType) ==
    IF cond
    THEN WithCond(track_panic_3(kind, <<"assertion failed: '", "{}", "'">>,
                                <<text>>, line, retType))
    ELSE Continue(<<>>, 1)

track_assert_2(cond, text, kind, line, retType) ==
    IF ~cond
    THEN WithCond(track_panic_3(kind, <<"assertion failed: '", "{}", "'">>,
                                <<text>>, line, retType))
    ELSE Continue(<<>>, 1)

track_assert_4(cond, text, kind, fmt, args, line, retType) ==
    IF ~cond
    THEN WithCond(track_panic_3(kind,
                      concat(<<"assertion failed: '", "{}", "'; ">>, fmt),
                      <<text>> \o args, line, retType))
    ELSE Continue(<<>>, 1)

track_assert_3(cond, text, kind, fmt, line, retType) ==
    track_assert_4(cond, text, kind, fmt, <<>>, line, retType)

(* track_assert_eq! with the comparison of track_assert_ne!. *)
track_assert_eq_3_ne(left, right, kind, line, retType) ==
    track_assert_4(left # right, "left == right", kind,
        <<"assertion failed: '(left == right)' (left: '", "{:?}",
          "', right: '", "{:?}", "')">>,
        <<Debug(left), Debug(right)>>, line, retType)

track_assert_eq_3(left, right, kind, line, retType) ==
    track_assert_4(left = right, "left == right", kind,
        <<"assertion failed: '(left == right)' (left: '", "{:?}",
          "', right: '", "{:?}", "')">>,
        <<Debug(left), Debug(right)>>, line, retType)

track_assert_ne_3(left, right, kind, line, retType) ==
    track_assert_4(left # right, "left != right", kind,
        <<"assertion failed: '(left != right)' (left: '", "{:?}",
          "', right: '", "{:?}", "')">>,
        <<Debug(left), Debug(right)>>, line, retType)

track_assert_some_2(expr, text, kind, line, retType) ==
    IF is_some(expr)
    THEN Continue(unwrap(expr), 1)
    ELSE WithCond(track_panic_3(kind,
                      <<"assertion failed: '", "{}", ".is_some()'">>,
                      <<text>>, line, retType))

track_assert_eq_5(left, right, kind, fmt, args, line, retType) ==
    track_assert_4(left = right, "left == right", kind,
        concat(<<"assertion failed: '(left == right)' (left: '", "{:?}",
                 "', right: '", "{:?}", "'): ">>, fmt),
        <<Debug(left), Debug(right)>> \o args, line, retType)

track_assert_eq_4(left, right, kind, fmt, line, retType) ==
    track_assert_eq_5(left, right, kind, fmt, <<>>, line, retType)

track_assert_ne_5(left, right, kind, fmt, args, line, retType) ==
    track_assert_4(left # right, "left != right", kind,
        concat(<<"assertion failed: '(left != right)' (left: '", "{:?}",
                 "', right: '", "{:?}", "'): ">>, fmt),
        <<Debug(left), Debug(right)>> \o args, line, retType)

track_assert_ne_4(left, right, kind, fmt, line, retType) ==
    track_assert_ne_5(left, right, kind, fmt, <<>>, line, retType)

track_assert_some_4(expr, text, kind, fmt, args, line, retType) ==
    IF is_some(expr)
    THEN Continue(unwrap(expr), 1)
    ELSE WithCond(track_panic_3(kind,
                      concat(<<"assertion failed: '", "{}", ".is_some()'; ">>,
                             fmt),
                      <<text>> \o args, line, retType))

track_assert_some_3(expr, text, kind, fmt, line, retType) ==
    track_assert_some_4(expr, text, kind, fmt, <<>>, line, retType)

(* The Err arm returns the error instead of panicking. *)
Unwrapped_returns(t, text) ==
    IF t.value.tag = "Err"
    THEN Outcome("return", t.value, t, 0)
    ELSE Outcome("continue", t.value.val, t, 0)

Unwrapped(t, text) ==
    IF t.value.tag = "Err"
    THEN Outcome("panic", [error |-> t.value.val, expression |-> text], t, 0)
    ELSE Outcome("continue", t.value.val, t, 0)

track_try_unwrap_1(expr, text, line) == Unwrapped(track_1(expr, line), text)

track_try_unwrap_2(expr, text, fmt, args, line) ==
    Unwrapped(track_3(expr, line, fmt, args), text)

---------------------------------------------------------------------------
(* The program.  It holds one trackable value, target, and applies track!, *)
(* enable_tracking, disable_tracking, the wrappers Some and Err and the    *)
(* newtype conversions to it; and it calls functions whose body is one     *)
(* macro followed by one statement.  The counters hold the counts of the   *)
(* last operation.                                                         *)

untracked(e) == [e EXCEPT !.history = None]

InitErrors ==
    {error(k) : k \in Kinds}
        \cup {cause("Failed", "something wrong"), untracked(error("Failed"))}

InitValues == InitErrors \cup {[tag |-> "None"], Ok(0)}

RECURSIVE depth(_)
depth(v) == IF v.tag \in {"Some", "Err"} THEN 1 + depth(v.val) ELSE 0

NoCall == [macro |-> "none"]

Init ==
    /\ target \in InitValues
    /\ pre = target
    /\ lastOp = [op |-> "init"]
    /\ log = <<>> /\ calls = 0
    /\ factoryCalls = 0 /\ locations = 0 /\ msgEvals = 0
    /\ pc = "idle" /\ call = NoCall /\ ret = None
    /\ condEvals = 0 /\ afterRan = FALSE /\ panicked = None

Counts(t) ==
    /\ factoryCalls' = t.factory
    /\ locations' = t.locs
    /\ msgEvals' = t.evals

Op(name, value) ==
    /\ pc = "idle"
    /\ target' = value
    /\ pre' = target
    /\ lastOp' = [op |-> name]
    /\ Counts(Untracked)
    /\ UNCHANGED <<log, calls>>
    /\ UNCHANGED fnVars

Track(site) ==
    /\ pc = "idle"
    /\ calls < MaxCalls
    /\ target' = track(target, site).value
    /\ pre' = target
    /\ lastOp' = [op |-> "track", site |-> site]
    /\ log' = IF in_tracking(target) THEN Append(log, SiteEvent(site)) ELSE log
    /\ calls' = calls + 1
    /\ Counts(track(target, site))
    /\ UNCHANGED fnVars

EnableTracking ==
    /\ pc = "idle"
    /\ Op("enable_tracking", enable_tracking(target))

DisableTracking ==
    /\ pc = "idle"
    /\ Op("disable_tracking", disable_tracking(target))

WrapSome ==
    /\ depth(target) < MaxDepth
    /\ Op("Some", [tag |-> "Some", val |-> target])

WrapErr ==
    /\ depth(target) < MaxDepth
    /\ target.tag \in {"Error", "Newtype"}
    /\ Op("Err", Err(target))

IntoNewtype ==
    /\ target.tag = "Error"
    /\ Op("from_inner", newtype_from_inner(target))

IntoInner ==
    /\ target.tag = "Newtype"
    /\ Op("into_inner", newtype_into_inner(target))

NewtypeFromKind(k) ==
    /\ pc = "idle"
    /\ target' = newtype_from_kind(k)
    /\ pre' = target
    /\ lastOp' = [kind |-> k, op |-> "from_kind"]
    /\ log' = <<>> /\ calls' = 0
    /\ Counts(Untracked)
    /\ UNCHANGED fnVars

(* The enclosing function runs its macro: o is the macro's outcome. *)
Run(c, o) ==
    /\ pc = "idle"
    /\ call' = c
    /\ pc' = CASE o.flow = "continue" -> "after"
               [] o.flow = "return"   -> "returned"
               [] o.flow = "panic"    -> "panicked"
    /\ ret' = IF o.flow = "return" THEN Some(o.value) ELSE None
    /\ panicked' = IF o.flow = "panic" THEN Some(o.value) ELSE None
    /\ condEvals' = o.conds
    /\ afterRan' = FALSE
    /\ Counts(o)
    /\ pre' = target
    /\ lastOp' = [op |-> "call"]
    /\ UNCHANGED <<target, log, calls>>

(* The statement after the macro: the function returns Ok. *)
RunAfter ==
    /\ pc = "after"
    /\ afterRan' = TRUE
    /\ ret' = Some(Ok(call.okValue))
    /\ pc' = "returned"
    /\ UNCHANGED <<target, pre, lastOp, log, calls, factoryCalls, locations,
                   msgEvals, call, condEvals, panicked>>

(* The caller takes the result (or the panic is caught by the test        *)
(* harness) and the program goes on.                                      *)
Return ==
    /\ pc \in {"returned", "panicked"}
    /\ pc' = "idle" /\ call' = NoCall /\ ret' = None
    /\ condEvals' = 0 /\ afterRan' = FALSE /\ panicked' = None
    /\ Counts(Untracked)
    /\ UNCHANGED <<target, pre, lastOp, log, calls>>

---------------------------------------------------------------------------
(* Functions whose body is one macro and one statement after it.           *)

Floats == {-2, 1, 2, 3}
Ints == {1, 2}
U32s == {2, 10}
CallLines == {9, 458}
Arms == {2, 3, 4}

CondText == "a > 0.0 && b > 0.0"
Note == <<"both must be positive">>
NoteFmt == <<"a=", "{}">>

(* fn add_positive_f32(a, b) { track_assert!(a > 0.0 && b > 0.0, kind      *)
(*                                           [, fmt [, args]]);            *)
(*                             Ok(a + b) }                                 *)
TrackAssert(a, b, kind, arm, line, retType) ==
    /\ pc = "idle"
    /\ LET cond == a > 0 /\ b > 0
       IN  Run([a |-> a, arm |-> arm, b |-> b, kind |-> kind, line |-> line,
                macro |-> "track_assert", okValue |-> a + b,
                retType |-> retType],
               CASE arm = 2 -> track_assert_2(cond, CondText, kind, line,
                                              retType)
                 [] arm = 3 -> track_assert_3(cond, CondText, kind, Note,
                                              line, retType)
                 [] arm = 4 -> track_assert_4(cond, CondText, kind, NoteFmt,
                                              <<Debug(a)>>, line, retType))

(* fn f(left, right) { track_assert_eq!(left, right, kind [, fmt [, args]]);*)
(*                     Ok(left) }                                          *)
TrackAssertEq(left, right, kind, arm, line, retType) ==
    /\ pc = "idle"
    /\ Run([arm |-> arm + 1, kind |-> kind, left |-> left, line |-> line,
            macro |-> "track_assert_eq", okValue |-> left,
            retType |-> retType, right |-> right],
           CASE arm = 2 -> track_assert_eq_3(left, right, kind, line, retType)
             [] arm = 3 -> track_assert_eq_4(left, right, kind, Note, line,
                                             retType)
             [] arm = 4 -> track_assert_eq_5(left, right, kind, NoteFmt,
                                             <<Debug(left)>>, line, retType))

TrackAssertNe(left, right, kind, arm, line, retType) ==
    /\ pc = "idle"
    /\ Run([arm |-> arm + 1, kind |-> kind, left |-> left, line |-> line,
            macro |-> "track_assert_ne", okValue |-> left,
            retType |-> retType, right |-> right],
           CASE arm = 2 -> track_assert_ne_3(left, right, kind, line, retType)
             [] arm = 3 -> track_assert_ne_4(left, right, kind, Note, line,
                                             retType)
             [] arm = 4 -> track_assert_ne_5(left, right, kind, NoteFmt,
                                             <<Debug(left)>>, line, retType))

checked_sub(a, b) == IF a >= b THEN Some(a - b) ELSE None

(* fn trackable_checked_sub(a, b) {                                        *)
(*     let n = track_assert_some!(a.checked_sub(b), kind [, fmt [, args]]);*)
(*     Ok(n) }                                                             *)
TrackAssertSome(a, b, kind, arm, line, retType) ==
    /\ pc = "idle"
    /\ LET expr == checked_sub(a, b)
           text == "a.checked_sub(b)"
           o == CASE arm = 2 -> track_assert_some_2(expr, text, kind, line,
                                                    retType)
                  [] arm = 3 -> track_assert_some_3(expr, text, kind, Note,
                                                    line, retType)
                  [] arm = 4 -> track_assert_some_4(expr, text, kind, NoteFmt,
                                                    <<Debug(a)>>, line,
                                                    retType)
       IN  Run([a |-> a, arm |-> arm, b |-> b, kind |-> kind, line |-> line,
                macro |-> "track_assert_some",
                okValue |-> IF o.flow = "continue" THEN o.value ELSE 0,
                retType |-> retType], o)

(* foo(|| track_panic!(kind)): the arguments of the three arms.            *)
PanicArgs ==
    {[arm |-> 1, error |-> KindArg(k)] : k \in Kinds}
        \cup {[arm |-> 2, kind |-> k, message |-> "something wrong"] :
                 k \in Kinds}
        \cup {[args |-> <<"wrong">>, arm |-> 3,
                fmt |-> <<"something ", "{}">>, kind |-> k] : k \in Kinds}

track_panic(p, line, retType) ==
    CASE p.arm = 1 -> track_panic_1(p.error, line, retType)
      [] p.arm = 2 -> track_panic_2(p.kind, p.message, line, retType)
      [] p.arm = 3 -> track_panic_3(p.kind, p.fmt, p.args, line, retType)

TrackPanic(p, line, retType) ==
    /\ pc = "idle"
    /\ Run([args |-> p, line |-> line, macro |-> "track_panic",
            okValue |-> 0, retType |-> retType],
           track_panic(p, line, retType))

(* track_panic!(e) with e the TrackableError the program holds. *)
TrackPanicError(line, retType) ==
    /\ target.tag = "Error"
    /\ TrackPanic([arm |-> 1, error |-> target], line, retType)

(* fn f(result) { let v = track_try_unwrap!(result.clone() [, fmt, args]); *)
(*                Ok(v) }                                                  *)
TrackTryUnwrap(arm, line) ==
    /\ target.tag \in {"Ok", "Err"}
    /\ LET text == "result.clone()"
           o == IF arm = 1
                THEN track_try_unwrap_1(target, text, line)
                ELSE track_try_unwrap_2(target, text,
                         <<"Additional information: ", "{}">>, <<"foo">>,
                         line)
       IN  Run([arm |-> arm, expr |-> target, line |-> line,
                macro |-> "track_try_unwrap",
                okValue |-> IF o.flow = "continue" THEN o.value ELSE 0], o)

---------------------------------------------------------------------------
(* Specifications *)

TrackingNext ==
    \/ \E site \in Sites : Track(site)
    \/ EnableTracking
    \/ DisableTracking
    \/ WrapSome
    \/ WrapErr
    \/ IntoNewtype
    \/ IntoInner
    \/ \E k \in Kinds : NewtypeFromKind(k)

Next ==
    \/ TrackingNext
    \/ \E arm \in {1, 2}, line \in CallLines : TrackTryUnwrap(arm, line)
    \/ \E line \in CallLines, rt \in RetTypes : TrackPanicError(line, rt)
    \/ RunAfter
    \/ Return

Spec == Init /\ [][Next]_vars

FnNext ==
    \/ \E a, b \in Floats, kind \in Kinds, arm \in Arms, line \in CallLines,
          rt \in RetTypes : TrackAssert(a, b, kind, arm, line, rt)
    \/ \E l, r \in Ints, kind \in Kinds, arm \in Arms, line \in CallLines,
          rt \in RetTypes : TrackAssertEq(l, r, kind, arm, line, rt)
    \/ \E l, r \in Ints, kind \in Kinds, arm \in Arms, line \in CallLines,
          rt \in RetTypes : TrackAssertNe(l, r, kind, arm, line, rt)
    \/ \E a, b \in U32s, kind \in Kinds, arm \in Arms, line \in CallLines,
          rt \in RetTypes : TrackAssertSome(a, b, kind, arm, line, rt)
    \/ \E p \in PanicArgs, line \in CallLines, rt \in RetTypes :
          TrackPanic(p, line, rt)
    \/ \E line \in CallLines, rt \in RetTypes : TrackPanicError(line, rt)
    \/ RunAfter
    \/ Return

FnSpec == Init /\ [][FnNext]_vars

---------------------------------------------------------------------------
(* Properties of track!, checked under Spec.                               *)

IsTrack == lastOp.op = "track"

HasHistory(v) == is_some(history(v))

EventsOf(v) == events(unwrap(history(v)))

IsPrefix(a, b) == Len(a) <= Len(b) /\ SubSeq(b, 1, Len(a)) = a

RECURSIVE shape(_)
shape(v) ==
    IF v.tag \in {"Some", "Err"} THEN <<v.tag>> \o shape(v.val) ELSE <<v.tag>>

RECURSIVE leaf(_)
leaf(v) ==
    IF v.tag \in {"Some", "Err"} THEN leaf(v.val)
    ELSE IF v.tag = "Newtype" THEN newtype_deref(v)
    ELSE v

(* C1: the events of the history are exactly the events of the track!      *)
(* calls made while the value was recording, in call order (the first call *)
(* at index 1 of the sequence); a value without history has recorded none. *)
(* Toggling, wrapping and converting add, drop and reorder nothing.        *)
C1_HistoryIsLog ==
    IF HasHistory(target) THEN EventsOf(target) = log ELSE log = <<>>

(* Three track! calls, the last one recorded, one of the first two made    *)
(* while recording was disabled: two events are recorded.                  *)
C1_Witness ==
    /\ HasHistory(target)
    /\ calls = 3
    /\ Len(EventsOf(target)) = 2
    /\ EventsOf(target)[1].line # EventsOf(target)[2].line
    /\ IsTrack
    /\ HasHistory(pre) /\ Len(EventsOf(pre)) = 1

(* C2: track! on a value without history, or with recording disabled,      *)
(* leaves the history length unchanged, runs no event factory, builds no   *)
(* Location and evaluates no message or format argument; on a recording    *)
(* value the factory runs exactly once.                                    *)
C2_LazyFactory ==
    IsTrack =>
        IF in_tracking(pre)
        THEN factoryCalls = 1
        ELSE /\ factoryCalls = 0 /\ locations = 0 /\ msgEvals = 0
             /\ HasHistory(target) = HasHistory(pre)
             /\ HasHistory(pre) =>
                    Len(EventsOf(target)) = Len(EventsOf(pre))

(* A track! with format arguments on a value whose recording is disabled. *)
C2_Witness ==
    /\ IsTrack /\ lastOp.site.arm = 3
    /\ HasHistory(pre) /\ ~in_tracking(pre)
    /\ Len(EventsOf(pre)) = 1

(* C3: track! of None or Ok(v) builds no event and gives back its input;   *)
(* track! of Some(x) or Err(x) keeps the wrapper and changes x as track!   *)
(* of x at the same call site does, with the same factory invocations.     *)
C3_Delegation ==
    IsTrack =>
        /\ pre.tag \in {"None", "Ok"} =>
              /\ target = pre
              /\ factoryCalls = 0 /\ locations = 0
        /\ pre.tag \in {"Some", "Err"} =>
              /\ target.tag = pre.tag
              /\ target.val = track(pre.val, lastOp.site).value
              /\ factoryCalls = track(pre.val, lastOp.site).factory
              /\ shape(target) = shape(pre)
              /\ leaf(target) = leaf(track(leaf(pre), lastOp.site).value)

(* Some(Err(x)) with x recording has been tracked: x got an event. *)
C3_Witness ==
    /\ IsTrack
    /\ shape(pre) = <<"Some", "Err", "Error">>
    /\ in_tracking(pre)
    /\ target # pre

(* C4: track! changes nothing but the end of the history: the shape        *)
(* (Ok/Err, Some/None), the kind, the cause and the recording mode stay,   *)
(* an absent history stays absent, the earlier events are a prefix of the  *)
(* new ones and at most one event is added.                                *)
C4_Frame ==
    IsTrack =>
        /\ shape(target) = shape(pre)
        /\ HasHistory(target) = HasHistory(pre)
        /\ leaf(pre).tag = "Error" =>
              /\ leaf(target).kind = leaf(pre).kind
              /\ leaf(target).cause = leaf(pre).cause
        /\ leaf(pre).tag # "Error" => target = pre
        /\ HasHistory(pre) =>
              /\ unwrap(history(target)).enabled
                    = unwrap(history(pre)).enabled
              /\ IsPrefix(EventsOf(pre), EventsOf(target))
              /\ Len(EventsOf(target)) <= Len(EventsOf(pre)) + 1

(* An Err of an error with a cause and one event got a second event. *)
C4_Witness ==
    /\ IsTrack
    /\ pre.tag = "Err"
    /\ is_some(leaf(pre).cause)
    /\ HasHistory(pre) /\ Len(EventsOf(pre)) = 1
    /\ Len(EventsOf(target)) = 2

---------------------------------------------------------------------------
(* Properties of the function macros.                                      *)

InCall(macro) == pc # "idle" /\ call.macro = macro

Continued == pc = "after" \/ (pc = "returned" /\ afterRan)

ReturnedErr ==
    /\ pc = "returned" /\ ~afterRan /\ panicked = None
    /\ is_some(ret) /\ unwrap(ret).tag = "Err"

(* Nothing went wrong: no error was made, the function runs on and        *)
(* returns Ok of its value.                                                *)
RanOn ==
    /\ Continued /\ panicked = None
    /\ factoryCalls = 0 /\ locations = 0
    /\ pc = "after" => ret = None
    /\ pc = "returned" => ret = Some(Ok(call.okValue))

InnerError(e) == IF e.tag = "Newtype" THEN newtype_deref(e) ELSE e

(* The TrackableError inside the Err the function returned. *)
Returned == InnerError(unwrap(ret).val)

(* A new error of the kind with the cause, tracked once at the line. *)
FreshTracked(kind, c, line) ==
    [cause |-> c,
     history |-> Some([enabled |-> TRUE,
                       events |-> <<Location_new(line, "")>>]),
     kind |-> kind, tag |-> "Error"]

(* C5: track_assert!(cond, kind) evaluates cond once.  When cond holds the *)
(* function runs on and no error is made; when it does not, the function   *)
(* returns at once Err of an error of the kind, with the cause             *)
(* "assertion failed: '<text of cond>'" and one history entry, the line    *)
(* of the assertion.  Checked under FnSpec.                                *)
C5_TrackAssert ==
    (InCall("track_assert") /\ call.arm = 2) =>
        /\ condEvals = 1
        /\ IF call.a > 0 /\ call.b > 0
           THEN RanOn /\ call.okValue = call.a + call.b
           ELSE /\ ReturnedErr
                /\ Returned = FreshTracked(call.kind,
                       Some("assertion failed: 'a > 0.0 && b > 0.0'"),
                       call.line)

(* add_positive_f32(1.0, -2.0) has returned its error. *)
C5_Witness ==
    /\ InCall("track_assert") /\ call.arm = 2
    /\ call.a = 1 /\ call.b = -2 /\ call.kind = "Failed"
    /\ ReturnedErr

(* C6: track_try_unwrap!(expr) panics whenever expr is Err(e), whatever e  *)
(* and its history are; when expr is Ok(v) it gives v, does not panic,     *)
(* runs no factory and changes nothing.  Checked under Spec.               *)
C6_TryUnwrap ==
    InCall("track_try_unwrap") =>
        /\ call.expr.tag = "Err" =>
              /\ pc = "panicked" /\ is_some(panicked)
              /\ ret = None /\ ~afterRan
        /\ call.expr.tag = "Ok" =>
              /\ RanOn /\ msgEvals = 0
              /\ call.okValue = call.expr.val
              /\ target = call.expr /\ target = pre

(* An Err of an error without history has made it panic. *)
C6_Witness ==
    /\ InCall("track_try_unwrap")
    /\ call.expr.tag = "Err" /\ ~HasHistory(call.expr)
    /\ pc = "panicked"

(* C7: enable_tracking and disable_tracking are idempotent, leave the      *)
(* events as they are and leave an absent history absent, on every value   *)
(* the program reaches, the newtype included, which forwards both.         *)
C7_Toggles ==
    /\ enable_tracking(enable_tracking(target)) = enable_tracking(target)
    /\ disable_tracking(disable_tracking(target)) = disable_tracking(target)
    /\ HasHistory(enable_tracking(target)) = HasHistory(target)
    /\ HasHistory(disable_tracking(target)) = HasHistory(target)
    /\ HasHistory(target) =>
          /\ EventsOf(enable_tracking(target)) = EventsOf(target)
          /\ EventsOf(disable_tracking(target)) = EventsOf(target)
          /\ unwrap(history(enable_tracking(target))).enabled
          /\ ~unwrap(history(disable_tracking(target))).enabled
    /\ ~HasHistory(target) =>
          /\ enable_tracking(target) = target
          /\ disable_tracking(target) = target
    /\ lastOp.op \in {"enable_tracking", "disable_tracking"} =>
          /\ HasHistory(target) = HasHistory(pre)
          /\ HasHistory(pre) => EventsOf(target) = EventsOf(pre)
          /\ shape(target) = shape(pre)
    /\ target.tag = "Newtype" =>
          /\ newtype_into_inner(enable_tracking(target))
                = enable_tracking(newtype_into_inner(target))
          /\ newtype_into_inner(disable_tracking(target))
                = disable_tracking(newtype_into_inner(target))

(* disable_tracking a second time on a newtype that holds an event. *)
C7_Witness ==
    /\ lastOp.op = "disable_tracking"
    /\ pre.tag = "Newtype"
    /\ HasHistory(pre) /\ ~in_tracking(pre) /\ Len(EventsOf(pre)) = 1
    /\ target = pre

EqMessage(left, right) ==
    "assertion failed: '" \o "left == right" \o "'; "
        \o "assertion failed: '(left == right)' (left: '" \o Debug(left)
        \o "', right: '" \o Debug(right) \o "')"

C9_TrackPanic ==
    InCall("track_panic") =>
        /\ ReturnedErr
        /\ LET p == call.args
           IN  /\ (p.arm = 1 /\ p.error.tag = "Kind") =>
                     /\ Returned = FreshTracked(p.error.kind, None, call.line)
                     /\ factoryCalls = 1
               /\ (p.arm = 1 /\ p.error.tag = "Error") =>
                     /\ Returned.kind = p.error.kind
                     /\ Returned.cause = p.error.cause
                     /\ HasHistory(Returned) = HasHistory(p.error)
                     /\ HasHistory(p.error) =>
                           /\ IsPrefix(EventsOf(p.error), EventsOf(Returned))
                           /\ Len(EventsOf(Returned))
                                 = Len(EventsOf(p.error)) + Ran(p.error)
               /\ p.arm = 2 =>
                     /\ Returned
                           = FreshTracked(p.kind, Some(p.message), call.line)
                     /\ factoryCalls = 1
               /\ p.arm = 3 =>
                     /\ Returned = FreshTracked(p.kind,
                                       Some("something wrong"), call.line)
                     /\ factoryCalls = 1

(* track_panic!(Failed, "something {}", "wrong") has returned. *)
C9_Witness ==
    /\ InCall("track_panic")
    /\ call.args.arm = 3 /\ call.args.kind = "Failed"
    /\ pc = "returned"

(* C10: the conversions between the newtype and its inner TrackableError   *)
(* lose nothing in either direction; history, history_mut,                 *)
(* enable_tracking, disable_tracking and track on the newtype do what they *)
(* do on the inner error; the newtype made from a kind has that kind, no   *)
(* cause and an empty, enabled history.  Checked under Spec.               *)
C10_Newtype ==
    /\ target.tag = "Error" =>
          newtype_into_inner(newtype_from_inner(target)) = target
    /\ target.tag = "Newtype" =>
          LET inner == newtype_into_inner(target)
          IN  /\ inner.tag = "Error"
              /\ newtype_from_inner(inner) = target
              /\ newtype_deref(target) = inner
              /\ history(target) = history(inner)
              /\ \A enabled \in BOOLEAN :
                    newtype_into_inner(
                        history_mut(target, History_new(enabled)))
                      = history_mut(inner, History_new(enabled))
              /\ newtype_into_inner(enable_tracking(target))
                    = enable_tracking(inner)
              /\ newtype_into_inner(disable_tracking(target))
                    = disable_tracking(inner)
              /\ \A site \in Sites :
                    /\ newtype_into_inner(track(target, site).value)
                          = track(inner, site).value
                    /\ track(target, site).factory
                          = track(inner, site).factory
    /\ lastOp.op = "from_inner" =>
          /\ target.tag = "Newtype" /\ newtype_into_inner(target) = pre
    /\ lastOp.op = "into_inner" =>
          /\ target.tag = "Error" /\ newtype_from_inner(target) = pre
    /\ lastOp.op = "from_kind" =>
          /\ target.tag = "Newtype"
          /\ newtype_into_inner(target)
                = [cause |-> None,
                   history |-> Some([enabled |-> TRUE, events |-> <<>>]),
                   kind |-> lastOp.kind, tag |-> "Error"]

(* A newtype whose error has a cause, an event and recording disabled has  *)
(* been converted to its inner error.                                      *)
C10_Witness ==
    /\ lastOp.op = "into_inner"
    /\ is_some(target.cause)
    /\ HasHistory(target) /\ ~in_tracking(target)
    /\ Len(EventsOf(target)) = 1

=============================================================================
